---- MODULE Spec2Model ----
(***************************************************************************)
(* Model of src/server.py: the Telegram group-ordering bot.  One webhook   *)
(* handler reads an update, dispatches on the command prefix of its text   *)
(* and reads/writes four module globals: session_active, orders,           *)
(* group_chat_id and admin_id.                                             *)
(*                                                                         *)
(* A Python str is a sequence of one-character strings; an Optional value  *)
(* is a sequence of length at most one (None is the empty one), so that    *)
(* None compares unequal to every id without comparing unlike values.      *)
(***************************************************************************)
EXTENDS Integers, Sequences, FiniteSets, TLC

\* The four module globals of server.py, and the record of the last request:
\* the update it carried (ev), the globals as they were when it arrived (pre),
\* the send_message calls it made (out) and the HTTP status it returned
\* (status, 0 before the first request).
\*
\* wk is the position of each handler invocation that is under way when the
\* server runs requests on several threads; with one request at a time (Spec)
\* every invocation runs to its end in one step and wk stays idle.
\*
\* arg and res hold the argument and the result of a function of the program
\* that is exercised on its own (SpecSummary, SpecClassify); the handlers
\* never touch them.
VARIABLES session_active, orders, group_chat_id, admin_id, ev, pre, out, status, wk,
          arg, res

vars == <<session_active, orders, group_chat_id, admin_id, ev, pre, out, status, wk,
          arg, res>>

globals == <<session_active, orders, group_chat_id, admin_id>>

Globals == [session_active |-> session_active, orders |-> orders,
            group_chat_id |-> group_chat_id, admin_id |-> admin_id]

\* ------------------------------------------------------------------ bounds

\* The ledger is unbounded in the program; the model accepts a text message
\* only while its records still fit under this cap.
MaxOrders == 2

\* ------------------------------------------------------- Python primitives

None == <<>>

Some(x) == <<x>>

\* Python truthiness of an Optional[int]: None and 0 are falsy.
Truthy(x) == x # None /\ x[1] # 0

\* `a or b` on strings: None and "" are both falsy (both are <<>> here).
Or(a, b) == IF a = <<>> THEN b ELSE a

\* str.strip() removes these from both ends (of the characters the inputs
\* of the model contain).
Whitespace == {" ", "\n", "\r", "\t"}

\* str.splitlines() breaks at these; "\r\n" is a single break.
LineBreaks == {"\n", "\r"}

RECURSIVE LStrip(_)
LStrip(s) ==
  IF s # <<>> /\ Head(s) \in Whitespace THEN LStrip(Tail(s)) ELSE s

RECURSIVE RStrip(_)
RStrip(s) ==
  IF s # <<>> /\ s[Len(s)] \in Whitespace
  THEN RStrip(SubSeq(s, 1, Len(s) - 1))
  ELSE s

Strip(s) == RStrip(LStrip(s))

StartsWith(s, p) == Len(s) >= Len(p) /\ SubSeq(s, 1, Len(p)) = p

\* `x in t` on strings: x occurs in t as a contiguous substring.
Contains(t, x) ==
  \E i \in 0..(Len(t) - Len(x)) : SubSeq(t, i + 1, i + Len(x)) = x

RECURSIVE SplitLines(_)
SplitLines(s) ==
  IF s = <<>> THEN <<>>
  ELSE LET brk  == {i \in 1..Len(s) : s[i] \in LineBreaks}
           i    == IF brk = {} THEN Len(s) + 1
                   ELSE CHOOSE k \in brk : \A j \in brk : k <= j
           skip == IF i < Len(s) /\ s[i] = "\r" /\ s[i + 1] = "\n" THEN 2 ELSE 1
       IN  <<SubSeq(s, 1, i - 1)>> \o SplitLines(SubSeq(s, i + skip, Len(s)))

UpperCase == <<"A", "B", "C", "D", "E", "F", "G", "H", "I", "J", "K", "L", "M", "N", "O", "P", "Q", "R", "S", "T", "U", "V", "W", "X", "Y", "Z">>

LowerCase == <<"a", "b", "c", "d", "e", "f", "g", "h", "i", "j", "k", "l", "m", "n", "o", "p", "q", "r", "s", "t", "u", "v", "w", "x", "y", "z">>

\* str.lower(): the Latin capitals change, Hebrew letters have no case.
LowerChar(c) ==
  IF \E i \in 1..Len(UpperCase) : UpperCase[i] = c
  THEN LowerCase[CHOOSE i \in 1..Len(UpperCase) : UpperCase[i] = c]
  ELSE c

Lower(s) == [i \in 1..Len(s) |-> LowerChar(s[i])]

\* str.replace(a, b) for a single character a.
ReplaceChar(s, a, b) == [i \in 1..Len(s) |-> IF s[i] = a THEN b ELSE s[i]]

RECURSIVE Join(_, _)
Join(sep, parts) ==
  IF parts = <<>> THEN <<>>
  ELSE IF Len(parts) = 1 THEN parts[1]
  ELSE parts[1] \o sep \o Join(sep, Tail(parts))

\* [ln.strip() for ln in lines if ln.strip()]
StrippedNonEmpty(lines) ==
  SelectSeq([i \in 1..Len(lines) |-> Strip(lines[i])], LAMBDA ln : ln # <<>>)

Digits == <<"0", "1", "2", "3", "4", "5", "6", "7", "8", "9">>

RECURSIVE NatStr(_)
NatStr(n) == IF n < 10 THEN <<Digits[n + 1]>>
             ELSE NatStr(n \div 10) \o <<Digits[(n % 10) + 1]>>

\* str() of an Optional[int], as an f-string formats it.
Str(x) == IF x = None THEN <<"N", "o", "n", "e">>
          ELSE IF x[1] < 0 THEN <<"-">> \o NatStr(0 - x[1]) ELSE NatStr(x[1])

\* --------------------------------------------------------------- categories

Hummus == <<"ח", "ו", "מ", "ו", "ס">>
Shawarma == <<"ש", "ו", "ו", "א", "ר", "מ", "ה">>
Bakery == <<"מ", "א", "פ", "י", "ה">>
Grocery == <<"מ", "כ", "ו", "ל", "ת">>
Meat == <<"ב", "ש", "ר">>
Fish == <<"ד", "ג", "י", "ם">>
Nursery == <<"מ", "ש", "ת", "ל", "ה">>
Greengrocer == <<"י", "ר", "ק", "נ", "י", "ה">>

CATEGORIES ==
  <<Hummus, Shawarma, Bakery, Grocery, Meat, Fish, Nursery, Greengrocer>>

\* The rules of classify_text in the order the code tries them.
Rules == <<
  [cat |-> Hummus, kw |-> {<<"ח", "ו", "מ", "ו", "ס">>, <<"ח", "ו", "מ", "ו", "ס", "י", "ה">>}],
  [cat |-> Shawarma, kw |-> {<<"ש", "ו", "ו", "א", "ר", "מ", "ה">>, <<"ש", "ו", "ו", "א", "ר">>, <<"s", "h", "a", "w", "a", "r", "m", "a">>}],
  [cat |-> Bakery, kw |-> {<<"מ", "א", "פ", "י", "ה">>, <<"מ", "א", "פ", "ה">>, <<"ל", "ח", "ם">>, <<"ק", "ר", "ו", "א", "ס", "ו", "ן">>, <<"ב", "י", "י", "ג", "ל">>}],
  [cat |-> Grocery, kw |-> {<<"מ", "כ", "ו", "ל", "ת">>, <<"ס", "ו", "פ", "ר">>, <<"ס", "ו", "פ", "ר", "מ", "ר", "ק", "ט">>, <<"ח", "ל", "ב">>, <<"ס", "ו", "כ", "ר">>, <<"ק", "מ", "ח">>, <<"ח", "מ", "א", "ה">>}],
  [cat |-> Meat, kw |-> {<<"ב", "ש", "ר">>, <<"ק", "ב", "ב">>, <<"ס", "ט", "י", "י", "ק">>, <<"פ", "ר", "ג", "י", "ת">>, <<"נ", "ת", "ח">>}],
  [cat |-> Fish, kw |-> {<<"ד", "ג">>, <<"ס", "ל", "מ", "ו", "ן">>, <<"ט", "ו", "נ", "ה">>, <<"פ", "י", "ל", "ה">>, <<"ד", "ג", "י", "ם">>}],
  [cat |-> Nursery, kw |-> {<<"מ", "ש", "ת", "ל", "ה">>, <<"ע", "צ", "י", "ץ">>, <<"צ", "מ", "ח">>, <<"ש", "ת", "י", "ל">>}],
  [cat |-> Greengrocer, kw |-> {<<"י", "ר", "ק">>, <<"י", "ר", "ק", "נ", "י", "ה">>, <<"ש", "ו", "ק", " ", "י", "ר", "ק", "ו", "ת">>, <<"י", "ר", "ק", "ו", "ת">>, <<"מ", "ל", "פ", "פ", "ו", "ן">>, <<"מ", "ל", "פ", "פ", "ו", "נ", "י", "ם">>, <<"ח", "ס", "ה">>, <<"ג", "ז", "ר">>}]
>>

normalize_text(t) ==
  Lower(Strip(ReplaceChar(ReplaceChar(t, "\r", " "), "\n", " ")))

classify_text_LastMatch(text) ==
  LET t   == normalize_text(text)
      hit == {i \in 1..Len(Rules) : \E x \in Rules[i].kw : Contains(t, x)}
  IN  IF hit = {} THEN Grocery
      ELSE Rules[CHOOSE i \in hit : \A j \in hit : i >= j].cat

\* Lines 60-78: the first rule with a keyword in the normalized text decides.
classify_text(text) ==
  LET t   == normalize_text(text)
      hit == {i \in 1..Len(Rules) : \E x \in Rules[i].kw : Contains(t, x)}
  IN  IF hit = {} THEN Grocery
      ELSE Rules[CHOOSE i \in hit : \A j \in hit : i <= j].cat

\* ------------------------------------------------------------ fixed texts

CmdStart == <<"/", "s", "t", "a", "r", "t">>
CmdSummary == <<"/", "s", "u", "m", "m", "a", "r", "y">>
CmdReset == <<"/", "r", "e", "s", "e", "t">>
CmdPrefix == <<"/">>

DefaultUsername == <<"מ", "ש", "ת", "מ", "ש">>

MsgNotMainGroup == <<"פ", "ק", "ו", "ד", "ה", " ", "ז", "ו", " ", "מ", "ו", "ת", "ר", "ת", " ", "ר", "ק", " ", "ב", "ק", "ב", "ו", "צ", "ה", " ", "ה", "ר", "א", "ש", "י", "ת", ".">>
MsgAdminSetHead == <<"א", "ת", "ה", " ", "ה", "ו", "ג", "ד", "ר", "ת", " ", "כ", "מ", "נ", "ה", "ל", " ", "ה", "ז", "מ", "נ", "ו", "ת", " ", "(", "i", "d", "=">>
MsgAdminSetTail == <<")", ".">>
MsgPrompt == <<"מ", "י", "ש", "ה", "ו", " ", "מ", "ש", "ה", "ו", " ", "מ", "ט", "י", "ר", "ה", "?">>
MsgSummaryDenied == <<"א", "י", "נ", "ך", " ", "מ", "ו", "ר", "ש", "ה", " ", "ל", "ב", "ק", "ש", " ", "ס", "י", "כ", "ו", "ם", ".">>
\* (the dash of the source text, U+2014, is written "-" here)
MsgFallbackNote == <<"ה", "ע", "ר", "ה", ":", " ", "ל", "א", " ", "ה", "צ", "ל", "ח", "ת", "י", " ", "ל", "ש", "ל", "ו", "ח", " ", "ה", "ו", "ד", "ע", "ה", " ", "פ", "ר", "ט", "י", "ת", " ", "-", " ", "ש", "ו", "ל", "ח", " ", "א", "ת", " ", "ה", "ס", "י", "כ", "ו", "ם", " ", "כ", "א", "ן", " ", "ב", "ק", "ב", "ו", "צ", "ה", " ", "ב", "מ", "ק", "ו", "ם", ".">>
MsgSentPrivately == <<"ה", "ס", "י", "כ", "ו", "ם", " ", "נ", "ש", "ל", "ח", " ", "א", "ל", "י", "ך", " ", "ב", "פ", "ר", "ט", "י", ".">>
MsgResetDenied == <<"א", "י", "נ", "ך", " ", "מ", "ו", "ר", "ש", "ה", " ", "ל", "ב", "צ", "ע", " ", "א", "י", "פ", "ו", "ס", ".">>
MsgResetDone == <<"מ", "א", "ג", "ר", " ", "ה", "ה", "ז", "מ", "נ", "ו", "ת", " ", "א", "ו", "פ", "ס", ".">>
MsgNoOrders == <<"א", "י", "ן", " ", "ה", "ז", "מ", "נ", "ו", "ת", " ", "כ", "ר", "ג", "ע", ".">>
SummaryHead == <<"ס", "י", "כ", "ו", "ם", " ", "ה", "ז", "מ", "נ", "ו", "ת", ":", "\n", "\n">>

\* ------------------------------------------------------------------ summary

\* f"- {o['username']}: {o['text']}"
ItemLine(o) == <<"-", " ">> \o o.username \o <<":", " ">> \o o.text

build_summary_text_NoSentinel(ledger) ==
  LET items(cat) == SelectSeq(ledger, LAMBDA o : o.category = cat)
      section(cat) ==
        cat \o <<":", "\n">> \o
        Join(<<"\n">>, [i \in 1..Len(items(cat)) |-> ItemLine(items(cat)[i])])
      grouped ==
        LET all == [c \in 1..Len(CATEGORIES) |->
                      IF items(CATEGORIES[c]) # <<>>
                      THEN section(CATEGORIES[c]) ELSE <<>>]
        IN  SelectSeq(all, LAMBDA g : g # <<>>)
  IN  SummaryHead \o Join(<<"\n", "\n">>, grouped)

build_summary_text_ArrivalOrder(ledger) ==
  LET first == SelectSeq([i \in 1..Len(ledger) |-> i],
                         LAMBDA i : \A j \in 1..(i - 1) :
                                      ledger[j].category # ledger[i].category)
      items(cat) == SelectSeq(ledger, LAMBDA o : o.category = cat)
      section(cat) ==
        cat \o <<":", "\n">> \o
        Join(<<"\n">>, [i \in 1..Len(items(cat)) |-> ItemLine(items(cat)[i])])
      grouped == [k \in 1..Len(first) |-> section(ledger[first[k]].category)]
  IN  IF grouped = <<>> THEN MsgNoOrders
      ELSE SummaryHead \o Join(<<"\n", "\n">>, grouped)

\* Lines 81-89.
build_summary_text(ledger) ==
  LET items(cat) == SelectSeq(ledger, LAMBDA o : o.category = cat)
      section(cat) ==
        cat \o <<":", "\n">> \o
        Join(<<"\n">>, [i \in 1..Len(items(cat)) |-> ItemLine(items(cat)[i])])
      grouped ==
        LET all == [c \in 1..Len(CATEGORIES) |->
                      IF items(CATEGORIES[c]) # <<>>
                      THEN section(CATEGORIES[c]) ELSE <<>>]
        IN  SelectSeq(all, LAMBDA g : g # <<>>)
  IN  IF grouped = <<>> THEN MsgNoOrders
      ELSE SummaryHead \o Join(<<"\n", "\n">>, grouped)

max_chunk == 3500

Chunks_WholePiecesOnly(summary, n) ==
  [k \in 1..(Len(summary) \div n) |-> SubSeq(summary, (k - 1) * n + 1, k * n)]

\* [summary[i : i + n] for i in range(0, len(summary), n)]
Chunks(summary, n) ==
  [k \in 1..((Len(summary) + n - 1) \div n) |->
     SubSeq(summary, (k - 1) * n + 1,
            IF k * n < Len(summary) THEN k * n ELSE Len(summary))]

\* ------------------------------------------------------------------- inputs

\* The `from` objects of the updates: one with a username, one with only a
\* first name, and a message without `from`.
Senders == {
  [id |-> Some(1), username |-> <<"a">>, first_name |-> None],
  [id |-> Some(2), username |-> None, first_name |-> <<"b">>],
  [id |-> None, username |-> None, first_name |-> None] }

\* chat.id of the updates; None is a message without chat.id.
Chats == {None, Some(1), Some(2)}

MessageIds == {Some(7)}

Texts == {
  CmdStart, CmdSummary, CmdReset,
  <<>>,
  <<" ", "ח", "ל", "ב", " ">>,
  <<"ב", "ש", "ר", "\r", "\n", "\n", " ", "/", "f", "o", "o">>,
  <<"/", "f", "o", "o", "\n", "ח", "ל", "ב">> }

Messages ==
  {[chat_id |-> c, from |-> f, text |-> t, message_id |-> i] :
     c \in Chats, f \in Senders, t \in Texts, i \in MessageIds}

\* GROUP_CHAT_ID and ADMIN_ID of the environment: unset, or an id.
ConfiguredChats == {None, Some(1)}
ConfiguredAdmins == {None, Some(1)}

\* The threads that serve requests at the same time.
Workers == {"w1", "w2"}

Idle == [pc |-> "idle", m |-> None, i |-> 0]

\* A request body that is no JSON (or an empty object), and an update that
\* carries neither message nor edited_message; an edited_message is handled
\* as a message is.
NoData == [data |-> FALSE, message |-> None]
NoMessage == [data |-> TRUE, message |-> None]
Update(m) == [data |-> TRUE, message |-> Some(m)]

\* ------------------------------------------------------------ send_message

\* One call of send_message: the payload, and whether Telegram accepted it
\* (the call returns None when it did not).
send_message(chat_id, text, reply_to_message_id, ok) ==
  [chat_id |-> chat_id, text |-> text,
   reply_to_message_id |->
     IF Truthy(reply_to_message_id) THEN reply_to_message_id ELSE None,
   ok |-> ok]

\* ------------------------------------------------------------------ webhook

\* The locals the handler extracts from the message (lines 104-109).
chat_id(m) == m.chat_id
text(m) == Strip(m.text)
user_id(m) == m.from.id
username(m) == Or(Or(m.from.username, m.from.first_name), DefaultUsername)

IsStart(m) == StartsWith(text(m), CmdStart)
IsSummary(m) == ~IsStart(m) /\ StartsWith(text(m), CmdSummary)
IsReset(m) == ~IsStart(m) /\ ~IsSummary(m) /\ StartsWith(text(m), CmdReset)
IsRegular(m) == ~IsStart(m) /\ ~IsSummary(m) /\ ~IsReset(m)

\* The messages by the branch of the dispatch (lines 114, 133, 163) they take.
StartMessages == {m \in Messages : IsStart(m)}
SummaryMessages == {m \in Messages : IsSummary(m)}
ResetMessages == {m \in Messages : IsReset(m)}
RegularMessages == {m \in Messages : IsRegular(m)}

Init ==
  /\ session_active = FALSE
  /\ orders = <<>>
  /\ group_chat_id \in ConfiguredChats
  /\ admin_id \in ConfiguredAdmins
  /\ ev = NoData
  /\ pre = Globals
  /\ out = <<>>
  /\ status = 0
  /\ wk = [w \in Workers |-> Idle]
  /\ arg = None
  /\ res = None

\* What every request records: the update and the globals it found.
Received(data) ==
  /\ ev' = data
  /\ pre' = Globals
  /\ UNCHANGED <<wk, arg, res>>

\* Lines 96-98: no JSON body.
HandleNoData ==
  /\ Received(NoData)
  /\ out' = <<>>
  /\ status' = 400
  /\ UNCHANGED globals

\* Lines 100-102: an update without a message.
HandleNoMessage ==
  /\ Received(NoMessage)
  /\ out' = <<>>
  /\ status' = 200
  /\ UNCHANGED globals

\* Lines 115-116: an unset group is bound to the chat of the /start.
BindGroup(m) == IF group_chat_id = None THEN chat_id(m) ELSE group_chat_id

WrongGroup_Never(m, bound) == FALSE

\* Line 118.
WrongGroup(m, bound) == chat_id(m) # bound

BindAdmin_Always(m) == user_id(m)

\* Lines 124-125: an unset admin is bound to the sender of the /start.
BindAdmin(m) == IF admin_id = None THEN user_id(m) ELSE admin_id

\* Lines 114-130: /start.
HandleStart(m) ==
  /\ m \in StartMessages
  /\ Received(Update(m))
  /\ status' = 200
  /\ LET bound == BindGroup(m)
     IN  /\ group_chat_id' = bound
         /\ IF WrongGroup(m, bound)
            THEN /\ UNCHANGED <<session_active, orders, admin_id>>
                 /\ \E ok \in BOOLEAN :
                      out' = <<send_message(chat_id(m), MsgNotMainGroup, None, ok)>>
            ELSE /\ session_active' = TRUE
                 /\ orders' = <<>>
                 /\ admin_id' = BindAdmin(m)
                 /\ IF admin_id = None
                    THEN \E ok1, ok2 \in BOOLEAN :
                           out' = <<send_message(admin_id',
                                      MsgAdminSetHead \o Str(admin_id') \o MsgAdminSetTail,
                                      None, ok1),
                                    send_message(bound, MsgPrompt, None, ok2)>>
                    ELSE \E ok \in BOOLEAN :
                           out' = <<send_message(bound, MsgPrompt, None, ok)>>

Authorized_UnsetMatchesUnknown(m) == user_id(m) = admin_id

Authorized_AnySenderOnceSet(m) == admin_id # None

\* Lines 134 and 164: the sender is the admin.
Authorized(m) == ~(admin_id = None \/ user_id(m) # admin_id)

SummarySends_RetriesPrivate(admin, chat, summary, size) ==
  LET chunks == Chunks(summary, size)
      n == Len(chunks)
      private(stop) ==
        IF Truthy(admin)
        THEN [k \in 1..(IF stop > n THEN n ELSE stop) |->
                send_message(admin, chunks[k], None, k # stop)]
        ELSE <<>>
      again(stop) ==
        IF Truthy(admin) THEN <<send_message(admin, chunks[stop], None, FALSE)>> ELSE <<>>
      fallback(fate) ==
        [k \in 1..n |-> send_message(chat, chunks[k], None, fate[k])] \o
        <<send_message(chat, MsgFallbackNote, None, fate[n + 1])>>
  IN  (IF Truthy(admin)
       THEN {private(n + 1) \o <<send_message(chat, MsgSentPrivately, None, ok)>> :
               ok \in BOOLEAN}
       ELSE {})
      \cup
      {private(sf[1]) \o again(sf[1]) \o fallback(sf[2]) :
         sf \in {x \in (1..n) \X [1..(n + 1) -> BOOLEAN] : ~Truthy(admin) => x[1] = 1}}

\* Lines 138-159: the sends of an authorized /summary, for each way the sends
\* can succeed or fail. The summary is cut into pieces of `size` characters;
\* the private sends to `admin` stop at the first piece that fails (`stop`,
\* n + 1 when none does), and a falsy admin id gets none. When all the private
\* sends succeeded a confirmation goes to `chat`; otherwise every piece is
\* sent to `chat`, whatever becomes of each, followed by a note.
SummarySends(admin, chat, summary, size) ==
  LET chunks == Chunks(summary, size)
      n == Len(chunks)
      private(stop) ==
        IF Truthy(admin)
        THEN [k \in 1..(IF stop > n THEN n ELSE stop) |->
                send_message(admin, chunks[k], None, k # stop)]
        ELSE <<>>
      fallback(fate) ==
        [k \in 1..n |-> send_message(chat, chunks[k], None, fate[k])] \o
        <<send_message(chat, MsgFallbackNote, None, fate[n + 1])>>
  IN  (IF Truthy(admin)
       THEN {private(n + 1) \o <<send_message(chat, MsgSentPrivately, None, ok)>> :
               ok \in BOOLEAN}
       ELSE {})
      \cup
      {private(sf[1]) \o fallback(sf[2]) :
         sf \in {x \in (1..n) \X [1..(n + 1) -> BOOLEAN] : ~Truthy(admin) => x[1] = 1}}

\* Lines 133-160: /summary.
HandleSummary(m) ==
  /\ m \in SummaryMessages
  /\ Received(Update(m))
  /\ status' = 200
  /\ UNCHANGED globals
  /\ IF ~Authorized(m)
     THEN \E ok \in BOOLEAN :
            out' = <<send_message(chat_id(m), MsgSummaryDenied, None, ok)>>
     ELSE out' \in SummarySends(admin_id, chat_id(m), build_summary_text(orders),
                                 max_chunk)

HandleReset_KeepsLedger(m) ==
  /\ m \in ResetMessages
  /\ Received(Update(m))
  /\ status' = 200
  /\ UNCHANGED <<group_chat_id, admin_id, orders>>
  /\ \E ok \in BOOLEAN :
       IF ~Authorized(m)
       THEN /\ out' = <<send_message(chat_id(m), MsgResetDenied, None, ok)>>
            /\ UNCHANGED session_active
       ELSE /\ session_active' = FALSE
            /\ out' = <<send_message(chat_id(m), MsgResetDone, None, ok)>>

HandleReset_KeepsSession(m) ==
  /\ m \in ResetMessages
  /\ Received(Update(m))
  /\ status' = 200
  /\ UNCHANGED <<group_chat_id, admin_id, session_active>>
  /\ \E ok \in BOOLEAN :
       IF ~Authorized(m)
       THEN /\ out' = <<send_message(chat_id(m), MsgResetDenied, None, ok)>>
            /\ UNCHANGED orders
       ELSE /\ orders' = <<>>
            /\ out' = <<send_message(chat_id(m), MsgResetDone, None, ok)>>

\* Lines 163-170: /reset.
HandleReset(m) ==
  /\ m \in ResetMessages
  /\ Received(Update(m))
  /\ status' = 200
  /\ UNCHANGED <<group_chat_id, admin_id>>
  /\ \E ok \in BOOLEAN :
       IF ~Authorized(m)
       THEN /\ out' = <<send_message(chat_id(m), MsgResetDenied, None, ok)>>
            /\ UNCHANGED <<session_active, orders>>
       ELSE /\ orders' = <<>>
            /\ session_active' = FALSE
            /\ out' = <<send_message(chat_id(m), MsgResetDone, None, ok)>>

InGroupSession_AnyChat(m) == session_active

\* Line 173: the session is active and the message is in the group.
InGroupSession(m) == session_active /\ chat_id(m) = group_chat_id

\* Line 174: the text is dropped when empty or when it starts with "/".
Dropped(t) == t = <<>> \/ StartsWith(t, CmdPrefix)

\* Line 178: the stripped non-empty lines of the text.
Lines(t) == StrippedNonEmpty(SplitLines(t))

OrderRecord_ClassifiesWholeText(m, line) ==
  [user_id |-> user_id(m), username |-> username(m), text |-> line,
   category |-> classify_text(text(m)), message_id |-> m.message_id]

\* Lines 184-191: the record appended for one line.
OrderRecord(m, line) ==
  [user_id |-> user_id(m), username |-> username(m), text |-> line,
   category |-> classify_text(line), message_id |-> m.message_id]

AppendAll_AtFront(ledger, records) == records \o ledger

\* Lines 183-192: the loop appends the records of the lines one by one.
AppendAll(ledger, records) == ledger \o records

\* Line 195.
ReplyText(cats) == IF Len(cats) > 1 THEN Join(<<"\n">>, cats) ELSE cats[1]

\* Lines 173-197: a regular message while the session is active, in the group.
HandleOrder_RollsBack(m) ==
  /\ m \in RegularMessages
  /\ InGroupSession(m)
  /\ Received(Update(m))
  /\ status' = 200
  /\ UNCHANGED <<session_active, group_chat_id, admin_id>>
  /\ LET lines == Lines(text(m))
         appended == AppendAll(orders, [i \in 1..Len(lines) |-> OrderRecord(m, lines[i])])
     IN  IF Dropped(text(m)) \/ lines = <<>>
         THEN /\ out' = <<>>
              /\ UNCHANGED orders
         ELSE /\ Len(orders) + Len(lines) <= MaxOrders
              /\ \E ok \in BOOLEAN :
                   /\ orders' = IF ok THEN appended ELSE orders
                   /\ out' = <<send_message(chat_id(m),
                                ReplyText([i \in 1..Len(lines) |-> appended[Len(orders) + i].category]),
                                m.message_id, ok)>>

HandleOrder(m) ==
  /\ m \in RegularMessages
  /\ InGroupSession(m)
  /\ Received(Update(m))
  /\ status' = 200
  /\ UNCHANGED <<session_active, group_chat_id, admin_id>>
  /\ LET lines == Lines(text(m))
     IN  IF Dropped(text(m)) \/ lines = <<>>
         THEN /\ out' = <<>>
              /\ UNCHANGED orders
         ELSE /\ Len(orders) + Len(lines) <= MaxOrders
              /\ orders' = AppendAll(orders, [i \in 1..Len(lines) |-> OrderRecord(m, lines[i])])
              /\ \E ok \in BOOLEAN :
                   out' = <<send_message(chat_id(m),
                              ReplyText([i \in 1..Len(lines) |-> orders'[Len(orders) + i].category]),
                              m.message_id, ok)>>

HandleOther_Notifies(m) ==
  /\ m \in RegularMessages
  /\ ~InGroupSession(m)
  /\ Received(Update(m))
  /\ \E ok \in BOOLEAN : out' = <<send_message(chat_id(m), MsgNotMainGroup, None, ok)>>
  /\ status' = 200
  /\ UNCHANGED globals

\* Line 199: any other message is answered "ok" and nothing else happens.
HandleOther(m) ==
  /\ m \in RegularMessages
  /\ ~InGroupSession(m)
  /\ Received(Update(m))
  /\ out' = <<>>
  /\ status' = 200
  /\ UNCHANGED globals

Next ==
  \/ HandleNoData
  \/ HandleNoMessage
  \/ \E m \in StartMessages : HandleStart(m)
  \/ \E m \in SummaryMessages : HandleSummary(m)
  \/ \E m \in ResetMessages : HandleReset(m)
  \/ \E m \in RegularMessages : HandleOrder(m)
  \/ \E m \in RegularMessages : HandleOther(m)

Spec == Init /\ [][Next]_vars

\* --------------------------------------------- requests on several threads

\* The same handler run by several threads at once: each step is one
\* statement of webhook() that reads or writes a global, taken by one
\* thread while the others rest between statements.  The handler takes no
\* lock.  The steps are named by the line of the statement.  The sends touch
\* no global and are not recorded here.

ConcurrentMessages ==
  {m \in Messages :
     /\ m.chat_id # None /\ m.from.id # None
     /\ m.text \in {CmdStart, CmdReset, CmdSummary, <<" ", "ח", "ל", "ב", " ">>, <<"ב", "ש", "ר", "\r", "\n", "\n", " ", "/", "f", "o", "o">>}}

Msg(w) == wk[w].m[1]

Goto(w, pc) == wk' = [wk EXCEPT ![w].pc = pc]

Done(w) == wk' = [wk EXCEPT ![w] = Idle]

request == <<ev, pre, out, status, arg, res>>

\* Lines 96-111 and the dispatch on the text: only locals are involved.
Receive(w) ==
  /\ wk[w].pc = "idle"
  /\ \E m \in ConcurrentMessages :
       wk' = [wk EXCEPT ![w] =
                [pc |-> IF IsStart(m) THEN "l115"
                        ELSE IF IsSummary(m) THEN "l134"
                        ELSE IF IsReset(m) THEN "l164"
                        ELSE "l173",
                 m |-> Some(m), i |-> 0]]
  /\ UNCHANGED <<globals, request>>

Start115(w) ==
  /\ wk[w].pc = "l115"
  /\ Goto(w, IF group_chat_id = None THEN "l116" ELSE "l118")
  /\ UNCHANGED <<globals, request>>

Start116(w) ==
  /\ wk[w].pc = "l116"
  /\ group_chat_id' = chat_id(Msg(w))
  /\ Goto(w, "l118")
  /\ UNCHANGED <<session_active, orders, admin_id, request>>

Start118(w) ==
  /\ wk[w].pc = "l118"
  /\ IF chat_id(Msg(w)) # group_chat_id THEN Done(w) ELSE Goto(w, "l122")
  /\ UNCHANGED <<globals, request>>

Start122(w) ==
  /\ wk[w].pc = "l122"
  /\ session_active' = TRUE
  /\ Goto(w, "l123")
  /\ UNCHANGED <<orders, group_chat_id, admin_id, request>>

Start123(w) ==
  /\ wk[w].pc = "l123"
  /\ orders' = <<>>
  /\ Goto(w, "l124")
  /\ UNCHANGED <<session_active, group_chat_id, admin_id, request>>

\* Lines 124 and, for a bound admin, 129-130.
Start124(w) ==
  /\ wk[w].pc = "l124"
  /\ IF admin_id = None THEN Goto(w, "l125") ELSE Done(w)
  /\ UNCHANGED <<globals, request>>

\* Lines 125-130.
Start125(w) ==
  /\ wk[w].pc = "l125"
  /\ admin_id' = user_id(Msg(w))
  /\ Done(w)
  /\ UNCHANGED <<session_active, orders, group_chat_id, request>>

\* Lines 134-160: the summary reads the globals and writes none.
Summary134(w) ==
  /\ wk[w].pc = "l134"
  /\ Done(w)
  /\ UNCHANGED <<globals, request>>

Reset164(w) ==
  /\ wk[w].pc = "l164"
  /\ IF ~Authorized(Msg(w)) THEN Done(w) ELSE Goto(w, "l167")
  /\ UNCHANGED <<globals, request>>

Reset167(w) ==
  /\ wk[w].pc = "l167"
  /\ orders' = <<>>
  /\ Goto(w, "l168")
  /\ UNCHANGED <<session_active, group_chat_id, admin_id, request>>

\* Lines 168-170.
Reset168(w) ==
  /\ wk[w].pc = "l168"
  /\ session_active' = FALSE
  /\ Done(w)
  /\ UNCHANGED <<orders, group_chat_id, admin_id, request>>

\* Lines 173-180: the test of the globals, then the split of the text.
Order173(w) ==
  /\ wk[w].pc = "l173"
  /\ IF /\ InGroupSession(Msg(w))
        /\ ~Dropped(text(Msg(w)))
        /\ Lines(text(Msg(w))) # <<>>
     THEN wk' = [wk EXCEPT ![w].pc = "l185", ![w].i = 1]
     ELSE Done(w)
  /\ UNCHANGED <<globals, request>>

\* Lines 183-197: one turn of the loop appends the record of line i; after
\* the last line the reply is sent.
Order185(w) ==
  /\ wk[w].pc = "l185"
  /\ Len(orders) < MaxOrders
  /\ LET lines == Lines(text(Msg(w)))
     IN  /\ orders' = Append(orders, OrderRecord(Msg(w), lines[wk[w].i]))
         /\ IF wk[w].i = Len(lines) THEN Done(w)
            ELSE wk' = [wk EXCEPT ![w].i = wk[w].i + 1]
  /\ UNCHANGED <<session_active, group_chat_id, admin_id, request>>

Step(w) ==
  \/ Receive(w)
  \/ Start115(w) \/ Start116(w) \/ Start118(w) \/ Start122(w)
  \/ Start123(w) \/ Start124(w) \/ Start125(w)
  \/ Summary134(w)
  \/ Reset164(w) \/ Reset167(w) \/ Reset168(w)
  \/ Order173(w) \/ Order185(w)

NextConcurrent == \E w \in Workers : Step(w)

SpecConcurrent == Init /\ [][NextConcurrent]_vars

\* ------------------------------------------- the summary on its own
\*
\* build_summary_text and the sends of lines 138-159, exercised on every
\* ledger of up to MaxLedger records and with chunk sizes that cut the
\* summary into up to MaxChunks pieces.

MaxLedger == 3
MaxChunks == 3

\* Records as the loop of lines 183-192 leaves them: the record of the first
\* line of an accepted text of an identified sender.
LedgerRecords ==
  {OrderRecord(m, Lines(text(m))[1]) :
     m \in {x \in RegularMessages :
              /\ x.chat_id = Some(1) /\ x.from.id # None
              /\ ~Dropped(text(x)) /\ Lines(text(x)) # <<>>}}

Ledgers == UNION {[1..k -> LedgerRecords] : k \in 0..MaxLedger}

\* Line 139: the chunk size of the program, and the sizes that cut a text of
\* `len` characters into 1..MaxChunks pieces.
ChunkSizes(len) == {max_chunk} \cup {(len + k - 1) \div k : k \in 1..MaxChunks}

\* The chat /summary is sent from; the private copy goes to the admin.
SummaryChat == Some(2)

\* A session under way, with the admin bound, and some ledger.
InitSummary ==
  /\ session_active = TRUE
  /\ orders \in Ledgers
  /\ group_chat_id = Some(1)
  /\ admin_id = Some(1)
  /\ ev = NoData
  /\ pre = Globals
  /\ out = <<>>
  /\ status = 0
  /\ wk = [w \in Workers |-> Idle]
  /\ arg = None
  /\ res = None

\* Line 138: summary = build_summary_text().
BuildSummary ==
  /\ res = None
  /\ res' = Some(build_summary_text(orders))
  /\ UNCHANGED <<globals, ev, pre, out, status, wk, arg>>

\* Lines 139-159: the summary is sent in chunks of some size (arg).
SendSummary ==
  /\ res # None /\ out = <<>>
  /\ \E size \in ChunkSizes(Len(res[1])) :
       /\ arg' = Some(size)
       /\ out' \in SummarySends(admin_id, SummaryChat, res[1], size)
  /\ UNCHANGED <<globals, ev, pre, status, wk, res>>

NextSummary == BuildSummary \/ SendSummary

SpecSummary == InitSummary /\ [][NextSummary]_vars

\* -------------------------------------------------- the classifier on its own
\*
\* classify_text as line 185 calls it, on every line of up to MaxWords words:
\* a keyword of each rule, a word that holds a keyword of a later rule, a word
\* in capitals, and words that no rule knows.

MaxWords == 2

ClassifyWords == {
  <<"ח", "ו", "מ", "ו", "ס", "י", "ה">>, <<"S", "H", "A", "W", "A", "R", "M", "A">>, <<"ל", "ח", "ם">>, <<"ס", "ו", "כ", "ר">>, <<"ק", "ב", "ב">>, <<"ד", "ג", "י", "ם">>, <<"ע", "צ", "י", "ץ">>,
  <<"מ", "ל", "פ", "פ", "ו", "נ", "י", "ם">>, <<"י", "ר", "ק", "ר", "ק">>, <<"מ", "י", "ם">>, <<"t", "e", "a">> }

\* The stripped non-empty lines of line 178 made of these words.
ClassifyLines ==
  {Join(<<" ">>, ws) : ws \in UNION {[1..k -> ClassifyWords] : k \in 1..MaxWords}}

\* The message the line came in.
ClassifyMessage(line) ==
  [chat_id |-> Some(1),
   from |-> [id |-> Some(1), username |-> <<"a">>, first_name |-> None],
   text |-> line, message_id |-> Some(7)]

\* A session under way in the group, and a line about to be recorded.
InitClassify ==
  /\ session_active = TRUE
  /\ orders = <<>>
  /\ group_chat_id = Some(1)
  /\ admin_id = Some(1)
  /\ ev = NoData
  /\ pre = Globals
  /\ out = <<>>
  /\ status = 0
  /\ wk = [w \in Workers |-> Idle]
  /\ arg \in {Some(line) : line \in ClassifyLines}
  /\ res = None

\* Lines 184-192: the line is classified and its record appended.
ClassifyLine ==
  /\ res = None
  /\ res' = Some(classify_text(arg[1]))
  /\ orders' = AppendAll(orders, <<OrderRecord(ClassifyMessage(arg[1]), arg[1])>>)
  /\ UNCHANGED <<session_active, group_chat_id, admin_id, ev, pre, out, status, wk, arg>>

NextClassify == ClassifyLine

SpecClassify == InitClassify /\ [][NextClassify]_vars

\* ------------------------------------------------------------------- claims

\* The last request carried a message; M is that message.
HasMessage == status # 0 /\ ev.message # None
M == ev.message[1]

IsPrefix(a, b) == Len(a) <= Len(b) /\ SubSeq(b, 1, Len(a)) = a

\* C1: a regular text changes the ledger only if, when it is handled, the
\* session is active and its chat id equals the bound group chat id; text
\* sent while idle or from another chat leaves the ledger as it was.
C1_SessionScoping ==
  (HasMessage /\ IsRegular(M) /\ orders # pre.orders)
    => (pre.session_active /\ M.chat_id = pre.group_chat_id)

C1_Witness ==
  /\ HasMessage /\ IsRegular(M) /\ ~Dropped(text(M))
  /\ pre.session_active /\ pre.group_chat_id # None
  /\ M.chat_id # pre.group_chat_id
  /\ pre.orders # <<>> /\ orders = pre.orders

\* C2: /summary or /reset from a sender whose id differs from the admin id
\* changes none of the globals and sends exactly one message, the refusal,
\* to the chat of the command; that text contains no text of the ledger.
C2_NonCoordinatorRejected ==
  (HasMessage /\ (IsSummary(M) \/ IsReset(M)) /\ M.from.id # pre.admin_id)
    => /\ Globals = pre
       /\ Len(out) = 1
       /\ out[1].chat_id = M.chat_id
       /\ out[1].text = IF IsSummary(M) THEN MsgSummaryDenied ELSE MsgResetDenied
       /\ \A i \in 1..Len(pre.orders) : ~Contains(out[1].text, pre.orders[i].text)

C2_Witness ==
  /\ HasMessage /\ IsSummary(M)
  /\ pre.admin_id # None /\ M.from.id # pre.admin_id
  /\ pre.orders # <<>>
  /\ Len(out) = 1 /\ out[1].text = MsgSummaryDenied

\* C3: whenever the session is active, the group chat id is set.
C3_ActiveImpliesGroupBound == session_active => group_chat_id # None

\* C4: /start from a chat other than the already bound group chat is refused
\* with one notice to that chat and changes none of the globals.
C4_ForeignStartRejected ==
  (HasMessage /\ IsStart(M) /\ pre.group_chat_id # None
     /\ M.chat_id # pre.group_chat_id)
    => /\ Globals = pre
       /\ Len(out) = 1
       /\ out[1].chat_id = M.chat_id
       /\ out[1].text = MsgNotMainGroup

C4_Witness ==
  /\ HasMessage /\ IsStart(M)
  /\ pre.group_chat_id # None /\ M.chat_id # pre.group_chat_id
  /\ pre.orders # <<>> /\ pre.admin_id = None
  /\ orders = pre.orders /\ admin_id = None

\* C5: /start from the bound group chat, or from any chat when none is
\* bound, leaves the session active and the ledger empty, binds the group
\* chat and the admin only where they were unset, and ends by sending the
\* prompt to the group chat.
C5_AcceptedStart ==
  (HasMessage /\ IsStart(M)
     /\ (pre.group_chat_id = None \/ M.chat_id = pre.group_chat_id))
    => /\ session_active
       /\ orders = <<>>
       /\ group_chat_id = IF pre.group_chat_id = None THEN M.chat_id
                          ELSE pre.group_chat_id
       /\ admin_id = IF pre.admin_id = None THEN M.from.id ELSE pre.admin_id
       /\ out # <<>>
       /\ out[Len(out)].text = MsgPrompt
       /\ out[Len(out)].chat_id = group_chat_id

\* A second /start in the bound group, by a sender who is not the admin,
\* with records in the ledger.
C5_Witness ==
  /\ HasMessage /\ IsStart(M)
  /\ pre.group_chat_id # None /\ M.chat_id = pre.group_chat_id
  /\ pre.admin_id # None /\ M.from.id # pre.admin_id
  /\ pre.session_active /\ pre.orders # <<>>
  /\ orders = <<>>

\* C6: /reset from the admin, whether the session was active or not, leaves
\* the session inactive and the ledger empty, keeps both bindings, answers
\* 200 and sends the one confirmation; from the state a reset leaves, a
\* further reset leaves the same state with the same confirmation.
C6_ResetIdempotent ==
  (HasMessage /\ IsReset(M) /\ pre.admin_id # None /\ M.from.id = pre.admin_id)
    => /\ ~session_active
       /\ orders = <<>>
       /\ group_chat_id = pre.group_chat_id
       /\ admin_id = pre.admin_id
       /\ status = 200
       /\ Len(out) = 1
       /\ out[1].chat_id = M.chat_id
       /\ out[1].text = MsgResetDone
       /\ (~pre.session_active /\ pre.orders = <<>>) => Globals = pre

\* A reset arriving in the state a reset leaves (idle, empty, admin bound).
C6_Witness ==
  /\ HasMessage /\ IsReset(M)
  /\ pre.admin_id # None /\ M.from.id = pre.admin_id
  /\ pre.group_chat_id # None
  /\ ~pre.session_active /\ pre.orders = <<>>
  /\ Globals = pre /\ out[1].text = MsgResetDone

\* The record the claims expect for one line of a message.
ExpectedRecord(m, line) ==
  [user_id |-> m.from.id,
   username |-> IF m.from.username # None THEN m.from.username
                ELSE IF m.from.first_name # None THEN m.from.first_name
                ELSE DefaultUsername,
   text |-> line,
   category |-> classify_text(line),
   message_id |-> m.message_id]

\* C7: of a regular text handled in the group while the session is active,
\* every line that starts with "/" is ignored and every other non-empty line
\* is appended, wherever the "/" lines stand in the message.
C7_CommandLinesIgnored ==
  (HasMessage /\ IsRegular(M) /\ pre.session_active
     /\ M.chat_id = pre.group_chat_id)
    => LET kept == SelectSeq(Lines(text(M)),
                             LAMBDA ln : ~StartsWith(ln, CmdPrefix))
       IN  orders = pre.orders \o
                    [i \in 1..Len(kept) |-> ExpectedRecord(M, kept[i])]

\* C8: a regular text accepted in the group while the session is active
\* (not empty, not starting with "/"), with n >= 1 non-empty stripped lines,
\* appends n records at the end of the ledger, one per line in order, each
\* with the sender, the line, the category of the line and the message id;
\* the one reply carries the n labels in order, joined by newlines.
C8_FanOut ==
  (HasMessage /\ IsRegular(M) /\ pre.session_active
     /\ M.chat_id = pre.group_chat_id /\ ~Dropped(text(M))
     /\ Len(Lines(text(M))) >= 1)
    => LET lines == Lines(text(M))
           n == Len(lines)
           base == Len(pre.orders)
       IN  /\ Len(orders) = base + n
           /\ SubSeq(orders, 1, base) = pre.orders
           /\ \A i \in 1..n : orders[base + i] = ExpectedRecord(M, lines[i])
           /\ Len(out) = 1
           /\ out[1].chat_id = M.chat_id
           /\ out[1].text =
                IF n = 1 THEN classify_text(lines[1])
                ELSE Join(<<"\n">>, [i \in 1..n |-> classify_text(lines[i])])

\* A two-line message whose lines fall in different categories.
C8_Witness ==
  /\ HasMessage /\ IsRegular(M) /\ pre.session_active
  /\ M.chat_id = pre.group_chat_id /\ ~Dropped(text(M))
  /\ Len(Lines(text(M))) = 2
  /\ Len(orders) = Len(pre.orders) + 2
  /\ orders[Len(orders) - 1].category # orders[Len(orders)].category
  /\ Len(out) = 1 /\ Contains(out[1].text, <<"\n">>)

\* C9: each request either leaves the ledger empty or leaves the previous
\* ledger as a prefix of the new one; a non-empty ledger becomes empty only
\* by a /start or a /reset.
C9_AppendOnly ==
  /\ orders = <<>> \/ IsPrefix(pre.orders, orders)
  /\ (orders = <<>> /\ pre.orders # <<>>)
       => (HasMessage /\ (IsStart(M) \/ IsReset(M)))

\* A record appended behind a record of another sender.
C9_Witness ==
  /\ Len(pre.orders) >= 1 /\ Len(orders) > Len(pre.orders)
  /\ orders[1].user_id # orders[Len(orders)].user_id

\* C10: with requests handled at the same time, the test of line 173 and
\* the appends of one text are one indivisible step with respect to /start
\* and /reset of other requests: a record is appended only while the session
\* is active, and the ledger is never cleared between two appends of one
\* message.
C10_OrderHandlingAtomic ==
  [][/\ (Len(orders') > Len(orders)) => session_active
     /\ (orders' = <<>> /\ wk' # wk /\ \E w \in Workers : wk[w].pc \in {"l123", "l167"})
          => \A v \in Workers : ~(wk[v].pc = "l185" /\ wk[v].i > 1)]_vars

\* C11: the summary lists the categories in the declared order whatever the
\* order the records arrived in, has no header for a category without
\* records, and under each header one line per record of that category, in
\* the order the records were appended; nothing else follows the title.
C11_SummaryGrouping ==
  (res # None /\ orders # <<>>) =>
    LET lines == SplitLines(res[1])
        header(c) == CATEGORIES[c] \o <<":">>
        of(c) == SelectSeq(orders, LAMBDA o : o.category = CATEGORIES[c])
        at(c) == {k \in 1..Len(lines) : lines[k] = header(c)}
        pos(c) == CHOOSE k \in at(c) : TRUE
        present == {c \in 1..Len(CATEGORIES) : of(c) # <<>>}
    IN  /\ \A c \in 1..Len(CATEGORIES) :
             Cardinality(at(c)) = IF c \in present THEN 1 ELSE 0
        /\ \A c, d \in present : c < d => pos(c) < pos(d)
        /\ \A c \in present :
             /\ pos(c) + Len(of(c)) <= Len(lines)
             /\ \A i \in 1..Len(of(c)) : lines[pos(c) + i] = ItemLine(of(c)[i])
        /\ Len(lines) = 1 + Len(orders) + 2 * Cardinality(present)

\* Meat, grocery, meat: the grocery section comes first, then both meat
\* records in the order they arrived.
C11_Witness ==
  /\ res # None /\ Len(orders) = 3
  /\ orders[1].category = Meat /\ orders[2].category = Grocery
  /\ orders[3].category = Meat /\ orders[1].username # orders[3].username
  /\ orders[1].username = <<"b">> /\ orders[2].username = <<"a">>
  /\ res[1] = <<"ס", "י", "כ", "ו", "ם", " ", "ה", "ז", "מ", "נ", "ו", "ת", ":", "\n", "\n", "מ", "כ", "ו", "ל", "ת", ":", "\n", "-", " ", "a", ":", " ", "ח", "ל", "ב", "\n", "\n", "ב", "ש", "ר", ":", "\n", "-", " ", "b", ":", " ", "ב", "ש", "ר", "\n", "-", " ", "a", ":", " ", "ב", "ש", "ר">>

\* C12: the summary sent for a /summary of the admin is exactly the "no
\* orders" text when the ledger is empty, and is not that text when the
\* ledger holds a record; something is always sent.
C12_EmptyLedgerSentinel ==
  (HasMessage /\ IsSummary(M) /\ pre.admin_id # None /\ M.from.id = pre.admin_id) =>
    LET summary == {i \in 1..Len(out) :
                      out[i].text \notin {MsgSentPrivately, MsgFallbackNote}}
    IN  /\ summary # {}
        /\ \A i \in summary : (out[i].text = MsgNoOrders) <=> (pre.orders = <<>>)

\* The admin asks for the summary of a session that has no record yet.
C12_Witness ==
  /\ HasMessage /\ IsSummary(M) /\ pre.admin_id # None /\ M.from.id = pre.admin_id
  /\ pre.session_active /\ pre.orders = <<>>
  /\ out[1].text = MsgNoOrders /\ out[1].chat_id = pre.admin_id /\ out[1].ok

RECURSIVE Concat(_)
Concat(parts) == IF parts = <<>> THEN <<>> ELSE Head(parts) \o Concat(Tail(parts))

\* C13: of the sends of one /summary, the pieces sent privately and the
\* pieces sent to the chat each have between 1 and the chunk size characters
\* and, in the order sent, concatenate to a prefix of the summary; the
\* private pieces make the whole summary when none failed, the pieces sent to
\* the chat make the whole summary whenever there are any, and one of the
\* two deliveries is whole.
C13_ChunksReconstructSummary ==
  arg # None =>
    LET size == arg[1]
        pieces == SubSeq(out, 1, Len(out) - 1)
        texts(sends) == [i \in 1..Len(sends) |-> sends[i].text]
        private == SelectSeq(pieces, LAMBDA s : s.chat_id = admin_id)
        public == SelectSeq(pieces, LAMBDA s : s.chat_id = SummaryChat)
    IN  /\ Len(private) + Len(public) = Len(pieces)
        /\ Len(pieces) >= 1
        /\ pieces = private \o public
        /\ \A i \in 1..Len(pieces) :
             Len(pieces[i].text) >= 1 /\ Len(pieces[i].text) <= size
        /\ IsPrefix(Concat(texts(private)), res[1])
        /\ (\A i \in 1..Len(private) : private[i].ok)
             => (public = <<>> /\ Concat(texts(private)) = res[1])
        /\ public # <<>> => Concat(texts(public)) = res[1]

\* A summary cut into three pieces, the last one shorter: the second
\* private piece fails and all three go to the chat.
C13_Witness ==
  /\ arg # None /\ Len(out) = 6
  /\ Len(res[1]) > 2 * arg[1] /\ Len(res[1]) < 3 * arg[1]
  /\ out[1].ok /\ ~out[2].ok /\ out[2].chat_id = admin_id
  /\ out[5].chat_id = SummaryChat /\ Len(out[5].text) < arg[1]
  /\ out[3].text \o out[4].text \o out[5].text = res[1]

\* C14: the category of a line is one of the eight categories: that of the
\* first rule, in the order of the rules, a keyword of which occurs in the
\* normalized line, and the grocery category when no rule has one; the
\* record appended for the line carries that category.
C14_ClassifierClosure ==
  res # None =>
    LET t == normalize_text(arg[1])
        matches(i) == \E x \in Rules[i].kw : Contains(t, x)
    IN  /\ \E c \in 1..Len(CATEGORIES) : res[1] = CATEGORIES[c]
        /\ \/ \E i \in 1..Len(Rules) :
                /\ matches(i) /\ res[1] = Rules[i].cat
                /\ \A j \in 1..(i - 1) : ~matches(j)
           \/ /\ \A i \in 1..Len(Rules) : ~matches(i)
              /\ res[1] = Grocery
        /\ \A k \in 1..Len(orders) :
             /\ orders[k].category = res[1]
             /\ \E c \in 1..Len(CATEGORIES) : orders[k].category = CATEGORIES[c]

\* Fish then shawarma in capitals: both rules match, the earlier one wins.
C14_Witness ==
  /\ res # None /\ arg[1] = <<"ד", "ג", "י", "ם", " ", "S", "H", "A", "W", "A", "R", "M", "A">>
  /\ res[1] = Shawarma /\ Len(orders) = 1 /\ orders[1].category = Shawarma

\* C15: a text that is not one of the three commands, arriving while the
\* session is idle or from a chat other than the bound group, changes no
\* global and sends nothing; the three rejection notices are sent only for
\* a /start from a chat other than the bound group, and for a /summary or a
\* /reset of a sender who is not the bound admin.
C15_OutsideSessionSilent ==
  /\ (HasMessage /\ IsRegular(M)
        /\ ~(pre.session_active /\ M.chat_id = pre.group_chat_id))
       => (Globals = pre /\ out = <<>>)
  /\ \A i \in 1..Len(out) :
       /\ out[i].text = MsgNotMainGroup
            => (HasMessage /\ IsStart(M)
                /\ pre.group_chat_id # None /\ M.chat_id # pre.group_chat_id)
       /\ out[i].text = MsgSummaryDenied
            => (HasMessage /\ IsSummary(M)
                /\ (pre.admin_id = None \/ M.from.id # pre.admin_id))
       /\ out[i].text = MsgResetDenied
            => (HasMessage /\ IsReset(M)
                /\ (pre.admin_id = None \/ M.from.id # pre.admin_id))

\* An order text from another chat while the session is active and holds a
\* record: nothing is recorded and nothing is sent.
C15_Witness ==
  /\ HasMessage /\ IsRegular(M) /\ ~Dropped(text(M))
  /\ pre.session_active /\ pre.group_chat_id # None /\ M.chat_id # None
  /\ M.chat_id # pre.group_chat_id
  /\ pre.orders # <<>> /\ orders = pre.orders /\ out = <<>>

\* C16: when a send of a request fails, the globals are what the request
\* makes them when every send succeeds: an accepted text leaves all its
\* records at the end of the ledger, an accepted /start leaves the session
\* active with an empty ledger and the group and the admin bound, a /reset of
\* the admin leaves the session idle with an empty ledger, and every other
\* request leaves the globals as they were.
C16_SendFailureKeepsState ==
  (HasMessage /\ \E i \in 1..Len(out) : ~out[i].ok) =>
    LET bindings == <<group_chat_id, admin_id>>
        before == <<pre.group_chat_id, pre.admin_id>>
    IN  /\ IsRegular(M) =>
             /\ Len(orders) = Len(pre.orders) + Len(Lines(text(M)))
             /\ IsPrefix(pre.orders, orders)
             /\ \A i \in 1..Len(Lines(text(M))) :
                  orders[Len(pre.orders) + i].text = Lines(text(M))[i]
             /\ session_active = pre.session_active /\ bindings = before
        /\ (IsStart(M) /\ out[1].text # MsgNotMainGroup) =>
             /\ session_active /\ orders = <<>>
             /\ group_chat_id = IF pre.group_chat_id = None THEN M.chat_id
                                ELSE pre.group_chat_id
             /\ admin_id = IF pre.admin_id = None THEN M.from.id ELSE pre.admin_id
        /\ (IsReset(M) /\ out[1].text = MsgResetDone) =>
             /\ ~session_active /\ orders = <<>> /\ bindings = before
        /\ (\/ IsSummary(M)
            \/ IsStart(M) /\ out[1].text = MsgNotMainGroup
            \/ IsReset(M) /\ out[1].text # MsgResetDone) => Globals = pre

\* The acknowledgement of a two-line text fails; both records are in the
\* ledger.
C16_Witness ==
  /\ HasMessage /\ IsRegular(M) /\ Len(out) = 1 /\ ~out[1].ok
  /\ Len(Lines(text(M))) = 2 /\ Len(orders) = Len(pre.orders) + 2

C18_IdleImpliesEmptyLedger == ~session_active => orders = <<>>

\* The session has just gone idle and it had records.
C18_Witness ==
  /\ ~session_active /\ pre.session_active /\ Len(pre.orders) >= 2
  /\ orders = <<>>

\* C19: with requests handled at the same time, a bound group chat id and a
\* bound admin id never change and are never unset, and the statements of a
\* /start that activate the session and clear the ledger run only for a
\* /start from the bound group.
C19_BindingsStable ==
  [][/\ group_chat_id # None => group_chat_id' = group_chat_id
     /\ admin_id # None => admin_id' = admin_id
     /\ \A w \in Workers :
          (wk[w].pc \in {"l122", "l123"} /\ wk'[w] # wk[w])
            => chat_id(Msg(w)) = group_chat_id]_vars

\* C20: while no admin is bound, a /summary or a /reset of any sender in any
\* chat changes no global and sends one message only, the rejection notice,
\* to the chat it came from; and a request changes the admin only when it is
\* an accepted /start that found no admin bound, which binds its sender.
C20_UnboundAdminRejectsAll ==
  /\ (HasMessage /\ (IsSummary(M) \/ IsReset(M)) /\ pre.admin_id = None) =>
       /\ Globals = pre
       /\ Len(out) = 1 /\ out[1].chat_id = M.chat_id
       /\ out[1].text = IF IsSummary(M) THEN MsgSummaryDenied ELSE MsgResetDenied
  /\ admin_id # pre.admin_id =>
       /\ HasMessage /\ IsStart(M) /\ pre.admin_id = None
       /\ admin_id = M.from.id
       /\ session_active /\ out[Len(out)].text = MsgPrompt

\* A session started by a sender without an id has a record and still no
\* admin; a /summary of another sender without an id is rejected.
C20_Witness ==
  /\ HasMessage /\ IsSummary(M) /\ M.from.id = None
  /\ pre.admin_id = None /\ pre.session_active /\ pre.orders # <<>>
  /\ out[1].text = MsgSummaryDenied /\ orders = pre.orders

====
